---- MODULE Spec2Model ----
(***************************************************************************)
(* A model of openhtf/__init__.py: the TestPhase decorator, the Test       *)
(* object (construction, plug_type_map, output callbacks) and              *)
(* Test.Execute with its SIGINT handler.  The executor starter, the cell   *)
(* loops and the HTTP handler live in modules that are not part of the     *)
(* source tree at hand; they are modelled from their documented contract.  *)
(***************************************************************************)
EXTENDS Integers, Sequences, FiniteSets, TLC

\* ------------------------------------------------------------------ bounds

\* Largest number of named positional parameters of a phase callable.
MaxArgs == 3
\* Largest timeout_s value handed to TestPhase.
MaxTimeout == 2
\* Longest phase list handed to Test(*phases).
MaxPhases == 3
\* Most output callbacks registered on a Test.
MaxCallbacks == 2
\* Most SIGINTs delivered during one Execute.
MaxInterrupts == 2
\* Most test runs one cell begins.
MaxRuns == 1
\* Number of cells of the station configuration (len(config.cell_info)).
NumCells == 2

\* ---------------------------------------------------------------- constants

\* An optional value: None is the empty tuple, a value v is <<v>>.
None == <<>>
Some(v) == <<v>>

EmptyMap == <<>>

\* Plug names and plug types (types are compared by identity: distinct
\* values here are distinct type objects).
PlugNames == {"cam", "psu"}
PlugTypes == {"TypeA", "TypeB"}

\* The output callbacks a script may register.
Callbacks == {"cbA", "cbB"}

\* The cells of the station configuration (config.cell_info).
Cells == 1..NumCells

\* A phase without a `plugs` attribute.
NoPlugs == [has_plugs |-> FALSE, plugs |-> EmptyMap]

VARIABLES
  \* TestPhase(timeout_s, run_if)(phase_func)
  phase_func,      \* the argspec of the decorated callable
  timeout_s,       \* decorator option
  run_if,          \* decorator option
  wrap_result,     \* pending, InvalidTestPhaseError, or the returned callable
  \* Test(*phases), Test.plug_type_map
  phases,          \* the phase list handed to the constructor
  test,            \* the Test object, once constructed
  plug_result,     \* what the last plug_type_map access produced
  \* Test.Execute
  exec_state,      \* "not_called", "running", "returned" or "raised"
  stack,           \* the main thread's frames: Execute, and sigint_handler
                   \* frames on top of it while a signal is being handled
  conf_loads,      \* number of conf.Load() calls
  rundata_saves,   \* number of RunData(...).SaveToFile() calls
  sigint_installed,\* signal.signal(SIGINT, sigint_handler) has run
  handler,         \* the HttpHandler: "none", "constructed", "started", "stopped"
  cell,            \* the starter's cells, each with its loop's position
  \* history, for stating the properties
  interrupts,      \* SIGINTs delivered so far
  midphase,        \* some SIGINT arrived while a cell was inside a phase body
  log,             \* the Stop calls made so far, in order
  reg_at_start     \* the callback list when starter.Start() ran

phaseVars == <<phase_func, timeout_s, run_if, wrap_result>>
testVars == <<phases, test, plug_result>>
execVars ==
  <<exec_state, stack, conf_loads, rundata_saves, sigint_installed, handler,
    cell, interrupts, midphase, log, reg_at_start>>
vars ==
  <<phase_func, timeout_s, run_if, wrap_result, phases, test, plug_result,
    exec_state, stack, conf_loads, rundata_saves, sigint_installed, handler,
    cell, interrupts, midphase, log, reg_at_start>>

\* ------------------------------------------------------------ TestPhase

\* What inspect.getargspec reports of a phase function: the number of named
\* positional parameters (args), how many of them carry a default
\* (defaults), and whether it takes *varargs and **keywords.
ArgSpecs ==
  { [args |-> a, defaults |-> d, varargs |-> v, keywords |-> k] :
      a \in 0..MaxArgs, d \in 0..MaxArgs, v \in BOOLEAN, k \in BOOLEAN }

ArgSpecOK(s) == s.defaults <= s.args

\* The number of parameters a caller must supply.
RequiredCount(s) == s.args - s.defaults

\* The outcomes of a decoration: not yet applied, raised, or the callable
\* returned with its attributes.
WrapPending ==
  [status |-> "pending", func |-> None, timeout_s |-> None, run_if |-> None]
InvalidTestPhaseError(f) ==
  [status |-> "InvalidTestPhaseError", func |-> Some(f),
   timeout_s |-> None, run_if |-> None]
Returned(f, t, r) ==
  [status |-> "returned", func |-> Some(f), timeout_s |-> t, run_if |-> r]

\* Wrap with the arity test counting only parameters without a default.
WrapRequiredOnly(f, t, r) ==
  IF RequiredCount(f) < 1
    THEN InvalidTestPhaseError(f)
    ELSE Returned(f, t, r)

\* Wrap(phase_func) inside TestPhase(timeout_s, run_if): the attributes
\* timeout_s and run_if are set only when the option is not None (an unset
\* attribute reads None here).
Wrap(f, t, r) ==
  IF f.args < 1
    THEN InvalidTestPhaseError(f)
    ELSE Returned(f, t, r)

InitPhaseIdle ==
  /\ phase_func = [args |-> 1, defaults |-> 0, varargs |-> FALSE, keywords |-> FALSE]
  /\ timeout_s = None
  /\ run_if = None
  /\ wrap_result = WrapPending

InitPhase ==
  /\ phase_func \in { s \in ArgSpecs : ArgSpecOK(s) }
  /\ timeout_s \in {None} \cup { Some(t) : t \in 1..MaxTimeout }
  /\ run_if \in {None, Some("cond")}
  /\ wrap_result = WrapPending

TestPhase ==
  /\ wrap_result = WrapPending
  /\ wrap_result' = Wrap(phase_func, timeout_s, run_if)
  /\ UNCHANGED <<phase_func, timeout_s, run_if>>
  /\ UNCHANGED <<testVars, execVars>>

\* --------------------------------------------------------- Test, plugs

\* A phase is NoPlugs (no `plugs` attribute) or carries a plugs dict: a
\* function from some plug names to plug types.
PlugDicts == UNION { [ns -> PlugTypes] : ns \in SUBSET PlugNames }
PhaseDescs == {NoPlugs} \cup { [has_plugs |-> TRUE, plugs |-> d] : d \in PlugDicts }

\* hasattr(phase, 'plugs')
HasPlugs(p) == p.has_plugs

SeqsUpTo(S, n) == UNION { [1..k -> S] : k \in 0..n }

\* The orders in which a dict may hand out its items: every order of the
\* plug names.
ItemOrders ==
  { o \in [1..Cardinality(PlugNames) -> PlugNames] :
      \A i, j \in DOMAIN o : i # j => o[i] # o[j] }

\* phase.plugs.iteritems() under item order o.
RECURSIVE ItemsFrom(_, _, _)
ItemsFrom(d, o, i) ==
  IF i > Len(o) THEN <<>>
  ELSE IF o[i] \in DOMAIN d
    THEN <<[plug |-> o[i], plug_type |-> d[o[i]]]>> \o ItemsFrom(d, o, i + 1)
    ELSE ItemsFrom(d, o, i + 1)

\* itertools.chain.from_iterable over the phases that have plugs.
RECURSIVE Chain(_, _)
Chain(ps, o) ==
  IF ps = <<>> THEN <<>>
  ELSE (IF HasPlugs(Head(ps)) THEN ItemsFrom(Head(ps).plugs, o, 1) ELSE <<>>)
         \o Chain(Tail(ps), o)

\* The outcomes of a plug_type_map access.
PlugPending == [status |-> "pending", map |-> EmptyMap]
DuplicatePlugError == [status |-> "DuplicatePlugError", map |-> EmptyMap]
MapResult(m) == [status |-> "returned", map |-> m]

\* The loop of plug_type_map with the type comparison left out: a later
\* requirement silently replaces an earlier one.
RECURSIVE FoldNoCheck(_, _)
FoldNoCheck(items, m) ==
  IF items = <<>> THEN MapResult(m)
  ELSE LET it == Head(items) IN
    FoldNoCheck(Tail(items),
                [n \in DOMAIN m \cup {it.plug} |->
                   IF n = it.plug THEN it.plug_type ELSE m[n]])

\* The loop of plug_type_map raising on every repeated plug name, equal
\* type or not.
RECURSIVE FoldRaiseOnRepeat(_, _)
FoldRaiseOnRepeat(items, m) ==
  IF items = <<>> THEN MapResult(m)
  ELSE LET it == Head(items) IN
    IF it.plug \in DOMAIN m
      THEN DuplicatePlugError
      ELSE FoldRaiseOnRepeat(Tail(items),
                [n \in DOMAIN m \cup {it.plug} |->
                   IF n = it.plug THEN it.plug_type ELSE m[n]])

\* The loop of plug_type_map over the chained items, m the map so far.
RECURSIVE Fold(_, _)
Fold(items, m) ==
  IF items = <<>> THEN MapResult(m)
  ELSE LET it == Head(items) IN
    IF it.plug \in DOMAIN m /\ it.plug_type # m[it.plug]
      THEN DuplicatePlugError
      ELSE Fold(Tail(items),
                [n \in DOMAIN m \cup {it.plug} |->
                   IF n = it.plug THEN it.plug_type ELSE m[n]])

\* Test.plug_type_map for phase list ps under item order o.
PlugTypeMapOf(ps, o) == Fold(Chain(ps, o), EmptyMap)

NoTest == [constructed |-> FALSE, phases |-> <<>>, output_callbacks |-> <<>>]

InitTestIdle ==
  /\ phases = <<>>
  /\ test = NoTest
  /\ plug_result = PlugPending

InitTest ==
  /\ phases \in SeqsUpTo(PhaseDescs, MaxPhases)
  /\ test = NoTest
  /\ plug_result = PlugPending

\* Test.__init__(*phases).  The phases drawn here carry no `parameters`
\* attribute, so the parameter union is over nothing.
TestInit ==
  /\ ~test.constructed
  /\ test' = [constructed |-> TRUE, phases |-> phases, output_callbacks |-> <<>>]
  /\ UNCHANGED <<phases, plug_result>>
  /\ UNCHANGED <<phaseVars, execVars>>

\* One read of the plug_type_map property.
PlugTypeMapGet ==
  /\ test.constructed
  /\ \E o \in ItemOrders : plug_result' = PlugTypeMapOf(test.phases, o)
  /\ UNCHANGED <<phases, test>>
  /\ UNCHANGED <<phaseVars, execVars>>

\* ------------------------------------------------- output callbacks

\* Test.AddOutputCallback(callback)
AddOutputCallback ==
  /\ test.constructed
  /\ Len(test.output_callbacks) < MaxCallbacks
  /\ \E cb \in Callbacks :
       test' = [test EXCEPT !.output_callbacks = Append(@, cb)]
  /\ UNCHANGED <<phases, plug_result>>
  /\ UNCHANGED <<phaseVars, execVars>>

\* One turn of the for loop of Test.OutputTestRecord(test_record).  it is
\* the caller's iteration (the list index, the record, the calls made so
\* far), cbs the callback list as it is now, ok whether the callback
\* invoked in this turn returns (TRUE) or raises (FALSE).  The loop ends
\* when the index has reached the end of the list; an exception of a
\* callback leaves the loop and the method.
OutputTestRecordStep(it, cbs, ok) ==
  IF it.idx < Len(cbs)
    THEN [it EXCEPT !.idx = @ + 1,
                    !.invoked = Append(@, [cb |-> cbs[it.idx + 1], record |-> it.record]),
                    !.otr = IF ok THEN "running" ELSE "raised"]
    ELSE [it EXCEPT !.otr = "returned"]

\* ------------------------------------------------------- Test.Execute

\* Execute starting the cells before the run metadata is saved.
ExecuteBodySaveLate ==
  << "conf.Load", "TestExecutorStarter", "HttpHandler",
     "signal.signal", "handler.Start", "starter.Start", "RunData.SaveToFile",
     "starter.Wait", "handler.Stop", "return" >>

\* The statements of Execute that act on the collaborators, in order.
ExecuteBody ==
  << "conf.Load", "RunData.SaveToFile", "TestExecutorStarter", "HttpHandler",
     "signal.signal", "handler.Start", "starter.Start", "starter.Wait",
     "handler.Stop", "return" >>

\* sigint_handler stopping only the cells.
SigintHandlerBodyCellsOnly == << "starter.Stop", "return" >>

\* The statements of sigint_handler, in order.
SigintHandlerBody == << "starter.Stop", "handler.Stop", "return" >>

Body(code) == IF code = "Execute" THEN ExecuteBody ELSE SigintHandlerBody

Frame(code) == [code |-> code, ip |-> 1, waiting |-> FALSE]

Top == stack[Len(stack)]

\* The statement the main thread is at.
At(stmt) == stack # <<>> /\ Body(Top.code)[Top.ip] = stmt

\* The main thread moved past its current statement.
Advanced == [stack EXCEPT ![Len(stack)] = [@ EXCEPT !.ip = @ + 1, !.waiting = FALSE]]

\* The phases of the test that is executed.
ExecPhases == <<NoPlugs, NoPlugs>>

NoCell ==
  [pc |-> "none", stop |-> FALSE, runs |-> 0, phase |-> 0, idx |-> 0,
   record |-> 0, invoked |-> <<>>, otr |-> "none", cbs_at_call |-> <<>>]

\* A cell's loop has been started and has not exited.
LoopAlive(c) == cell[c].pc \in {"loop", "phase", "output"}

InitExecIdle ==
  /\ exec_state = "not_called"
  /\ stack = <<>>
  /\ conf_loads = 0
  /\ rundata_saves = 0
  /\ sigint_installed = FALSE
  /\ handler = "none"
  /\ cell = [c \in Cells |-> NoCell]
  /\ interrupts = 0
  /\ midphase = FALSE
  /\ log = <<>>
  /\ reg_at_start = None

\* test.Execute() is called.
ExecuteCall ==
  /\ test.constructed
  /\ exec_state = "not_called"
  /\ exec_state' = "running"
  /\ stack' = <<Frame("Execute")>>
  /\ UNCHANGED <<conf_loads, rundata_saves, sigint_installed, handler, cell,
                 interrupts, midphase, log, reg_at_start>>
  /\ UNCHANGED <<phaseVars, testVars>>

\* conf.Load(): reads the configuration, or raises.
ConfLoad ==
  /\ At("conf.Load")
  /\ conf_loads' = conf_loads + 1
  /\ \E ok \in BOOLEAN :
       IF ok THEN stack' = Advanced /\ exec_state' = exec_state
             ELSE stack' = <<>> /\ exec_state' = "raised"
  /\ UNCHANGED <<rundata_saves, sigint_installed, handler, cell,
                 interrupts, midphase, log, reg_at_start>>
  /\ UNCHANGED <<phaseVars, testVars>>

\* rundata.RunData(...).SaveToFile(FLAGS.rundir): writes the file, or raises.
RunDataSave ==
  /\ At("RunData.SaveToFile")
  /\ rundata_saves' = rundata_saves + 1
  /\ \E ok \in BOOLEAN :
       IF ok THEN stack' = Advanced /\ exec_state' = exec_state
             ELSE stack' = <<>> /\ exec_state' = "raised"
  /\ UNCHANGED <<conf_loads, sigint_installed, handler, cell,
                 interrupts, midphase, log, reg_at_start>>
  /\ UNCHANGED <<phaseVars, testVars>>

\* starter = exe.TestExecutorStarter(self): the cells exist, none runs.
StarterConstruct ==
  /\ At("TestExecutorStarter")
  /\ cell' = [c \in Cells |-> [cell[c] EXCEPT !.pc = "created"]]
  /\ stack' = Advanced
  /\ UNCHANGED <<exec_state, conf_loads, rundata_saves, sigint_installed,
                 handler, interrupts, midphase, log, reg_at_start>>
  /\ UNCHANGED <<phaseVars, testVars>>

\* handler = http_handler.HttpHandler(self, starter.cells)
HandlerConstruct ==
  /\ At("HttpHandler")
  /\ handler' = "constructed"
  /\ stack' = Advanced
  /\ UNCHANGED <<exec_state, conf_loads, rundata_saves, sigint_installed,
                 cell, interrupts, midphase, log, reg_at_start>>
  /\ UNCHANGED <<phaseVars, testVars>>

\* signal.signal(signal.SIGINT, sigint_handler)
SignalInstall ==
  /\ At("signal.signal")
  /\ sigint_installed' = TRUE
  /\ stack' = Advanced
  /\ UNCHANGED <<exec_state, conf_loads, rundata_saves, handler, cell,
                 interrupts, midphase, log, reg_at_start>>
  /\ UNCHANGED <<phaseVars, testVars>>

\* handler.Start()
HandlerStart ==
  /\ At("handler.Start")
  /\ handler' = "started"
  /\ stack' = Advanced
  /\ UNCHANGED <<exec_state, conf_loads, rundata_saves, sigint_installed,
                 cell, interrupts, midphase, log, reg_at_start>>
  /\ UNCHANGED <<phaseVars, testVars>>

\* starter.Start(): every cell's loop is started.
StarterStart ==
  /\ At("starter.Start")
  /\ cell' = [c \in Cells |-> [cell[c] EXCEPT !.pc = "loop"]]
  /\ reg_at_start' = Some(test.output_callbacks)
  /\ stack' = Advanced
  /\ UNCHANGED <<exec_state, conf_loads, rundata_saves, sigint_installed,
                 handler, interrupts, midphase, log>>
  /\ UNCHANGED <<phaseVars, testVars>>

\* starter.Wait(): returns once no cell loop is running.
StarterWait ==
  /\ At("starter.Wait")
  /\ \A c \in Cells : ~LoopAlive(c)
  /\ stack' = Advanced
  /\ UNCHANGED <<exec_state, conf_loads, rundata_saves, sigint_installed,
                 handler, cell, interrupts, midphase, log, reg_at_start>>
  /\ UNCHANGED <<phaseVars, testVars>>

\* handler.Stop(), from Execute or from sigint_handler.
HandlerStop ==
  /\ At("handler.Stop")
  /\ handler' = "stopped"
  /\ log' = Append(log, [call |-> "handler.Stop", by |-> Top.code])
  /\ stack' = Advanced
  /\ UNCHANGED <<exec_state, conf_loads, rundata_saves, sigint_installed,
                 cell, interrupts, midphase, reg_at_start>>
  /\ UNCHANGED <<phaseVars, testVars>>

\* starter.Stop(), first half: every cell is told to stop.
StarterStopSignal ==
  /\ At("starter.Stop")
  /\ ~Top.waiting
  /\ cell' = [c \in Cells |-> [cell[c] EXCEPT !.stop = TRUE]]
  /\ log' = Append(log, [call |-> "starter.Stop", by |-> Top.code])
  /\ stack' = [stack EXCEPT ![Len(stack)] = [@ EXCEPT !.waiting = TRUE]]
  /\ UNCHANGED <<exec_state, conf_loads, rundata_saves, sigint_installed,
                 handler, interrupts, midphase, reg_at_start>>
  /\ UNCHANGED <<phaseVars, testVars>>

\* starter.Stop(), second half: returns once no cell loop is running.
StarterStopWait ==
  /\ At("starter.Stop")
  /\ Top.waiting
  /\ \A c \in Cells : ~LoopAlive(c)
  /\ log' = Append(log, [call |-> "starter.Stop returned", by |-> Top.code])
  /\ stack' = Advanced
  /\ UNCHANGED <<exec_state, conf_loads, rundata_saves, sigint_installed,
                 handler, cell, interrupts, midphase, reg_at_start>>
  /\ UNCHANGED <<phaseVars, testVars>>

\* The end of Execute or of sigint_handler: the frame is left.
Return ==
  /\ At("return")
  /\ stack' = SubSeq(stack, 1, Len(stack) - 1)
  /\ exec_state' = IF Top.code = "Execute" THEN "returned" ELSE exec_state
  /\ UNCHANGED <<conf_loads, rundata_saves, sigint_installed, handler, cell,
                 interrupts, midphase, log, reg_at_start>>
  /\ UNCHANGED <<phaseVars, testVars>>

\* A SIGINT is delivered while Execute is on the main thread's stack and
\* the handler is installed: sigint_handler runs on top of whatever the
\* main thread was doing, a handler already running included.
Interrupt ==
  /\ sigint_installed
  /\ stack # <<>>
  /\ interrupts < MaxInterrupts
  /\ interrupts' = interrupts + 1
  /\ midphase' = (midphase \/ \E c \in Cells : cell[c].pc = "phase")
  /\ stack' = Append(stack, Frame("sigint_handler"))
  /\ UNCHANGED <<exec_state, conf_loads, rundata_saves, sigint_installed,
                 handler, cell, log, reg_at_start>>
  /\ UNCHANGED <<phaseVars, testVars>>

\* ------------------------------------------------------- the cell loop

\* Loop top, not stopped: a new run begins with the first phase.
CellBegin(c) ==
  /\ cell[c].pc = "loop"
  /\ ~cell[c].stop
  /\ cell[c].runs < MaxRuns
  /\ cell' = [cell EXCEPT ![c] = [@ EXCEPT !.runs = @ + 1, !.phase = 1, !.pc = "phase"]]
  /\ UNCHANGED <<exec_state, stack, conf_loads, rundata_saves, sigint_installed,
                 handler, interrupts, midphase, log, reg_at_start>>
  /\ UNCHANGED <<phaseVars, testVars>>

\* Loop top, stopped: the loop exits.
CellExit(c) ==
  /\ cell[c].pc = "loop"
  /\ cell[c].stop
  /\ cell' = [cell EXCEPT ![c] = [@ EXCEPT !.pc = "exited"]]
  /\ UNCHANGED <<exec_state, stack, conf_loads, rundata_saves, sigint_installed,
                 handler, interrupts, midphase, log, reg_at_start>>
  /\ UNCHANGED <<phaseVars, testVars>>

\* A phase body ends.  At the phase boundary a stop request ends the run;
\* after the last phase, or on a stop request, the record is finished and
\* handed to test.OutputTestRecord.
CellPhaseEnd(c) ==
  /\ cell[c].pc = "phase"
  /\ cell' = [cell EXCEPT ![c] =
       IF cell[c].phase < Len(test.phases) /\ ~cell[c].stop
         THEN [@ EXCEPT !.phase = @ + 1]
         ELSE [@ EXCEPT !.pc = "output", !.idx = 0, !.record = cell[c].runs,
                        !.invoked = <<>>, !.otr = "running",
                        !.cbs_at_call = test.output_callbacks]]
  /\ UNCHANGED <<exec_state, stack, conf_loads, rundata_saves, sigint_installed,
                 handler, interrupts, midphase, log, reg_at_start>>
  /\ UNCHANGED <<phaseVars, testVars>>

\* One turn of the loop of test.OutputTestRecord(record) in the cell's
\* thread.  When the method is left, by return or by exception, the cell is
\* back at its loop top.
CellOutput(c) ==
  /\ cell[c].pc = "output"
  /\ \E ok \in BOOLEAN :
       LET it == OutputTestRecordStep(cell[c], test.output_callbacks, ok) IN
       cell' = [cell EXCEPT ![c] =
                  [it EXCEPT !.pc = IF it.otr = "running" THEN "output" ELSE "loop"]]
  /\ UNCHANGED <<exec_state, stack, conf_loads, rundata_saves, sigint_installed,
                 handler, interrupts, midphase, log, reg_at_start>>
  /\ UNCHANGED <<phaseVars, testVars>>

\* ------------------------------------------------------- specifications

InitPhaseSpec ==
  /\ InitPhase
  /\ InitTestIdle
  /\ InitExecIdle

NextPhase == TestPhase

SpecPhase == InitPhaseSpec /\ [][NextPhase]_vars

InitPlugsSpec ==
  /\ InitTest
  /\ InitPhaseIdle
  /\ InitExecIdle

NextPlugs ==
  \/ TestInit
  \/ PlugTypeMapGet

SpecPlugs == InitPlugsSpec /\ [][NextPlugs]_vars

\* A script has built Test(*ExecPhases) and calls Execute.
InitExecSpec ==
  /\ InitPhaseIdle
  /\ phases = ExecPhases
  /\ test = [constructed |-> TRUE, phases |-> ExecPhases, output_callbacks |-> <<>>]
  /\ plug_result = PlugPending
  /\ InitExecIdle

MainStep ==
  \/ ConfLoad
  \/ RunDataSave
  \/ StarterConstruct
  \/ HandlerConstruct
  \/ SignalInstall
  \/ HandlerStart
  \/ StarterStart
  \/ StarterWait
  \/ HandlerStop
  \/ StarterStopSignal
  \/ StarterStopWait
  \/ Return

CellStep(c) ==
  \/ CellBegin(c)
  \/ CellExit(c)
  \/ CellPhaseEnd(c)
  \/ CellOutput(c)

\* Execute of a test on which no output callback is registered.
NextExec ==
  \/ ExecuteCall
  \/ MainStep
  \/ Interrupt
  \/ \E c \in Cells : CellStep(c)

SpecExec == InitExecSpec /\ [][NextExec]_vars

\* The main thread and every started cell thread keep being scheduled.
FairSpecExec ==
  /\ SpecExec
  /\ WF_vars(MainStep)
  /\ \A c \in Cells : WF_vars(CellStep(c))

\* Execute of a test on which callbacks are registered at any time, before
\* Execute or while it runs (from a phase body, a callback, another thread).
NextRun ==
  \/ AddOutputCallback
  \/ NextExec

SpecRun == InitExecSpec /\ [][NextRun]_vars

\* ------------------------------------------------------------- claims

Conflict(ps) ==
  \E i, j \in DOMAIN ps :
    /\ HasPlugs(ps[i]) /\ HasPlugs(ps[j])
    /\ \E n \in DOMAIN ps[i].plugs \cap DOMAIN ps[j].plugs :
         ps[i].plugs[n] # ps[j].plugs[n]

\* Every reordering of the phase list ps.
Perms(ps) ==
  { [i \in DOMAIN ps |-> ps[f[i]]] :
      f \in { g \in [DOMAIN ps -> DOMAIN ps] :
                \A a, b \in DOMAIN ps : a # b => g[a] # g[b] } }

\* C2: when two phases require one plug name with two distinct types, the
\* plug_type_map access fails with DuplicatePlugError, and so does the
\* computation for every permutation of the phase list, under every item
\* order, with or without the phases that expose no plugs.
C2_ConflictRaises ==
  (plug_result.status # "pending" /\ Conflict(test.phases)) =>
    /\ plug_result = DuplicatePlugError
    /\ \A q \in Perms(test.phases) : \A o \in ItemOrders :
         /\ PlugTypeMapOf(q, o) = DuplicatePlugError
         /\ PlugTypeMapOf(SelectSeq(q, HasPlugs), o) = DuplicatePlugError

\* C2 witness: the access failed on a three-phase list whose conflicting
\* phases are the first and the last, with a plug-less phase between them.
C2_Witness ==
  /\ plug_result = DuplicatePlugError
  /\ Len(test.phases) = 3
  /\ ~HasPlugs(test.phases[2])
  /\ Conflict(<<test.phases[1], test.phases[3]>>)

\* C3: when the phases' plug requirements are pairwise consistent, the
\* plug_type_map access returns exactly the union of the phases' mappings:
\* every required (name, type) is in the map and every entry of the map is
\* required by some phase.
C3_ConsistentUnion ==
  (plug_result.status # "pending" /\ ~Conflict(test.phases)) =>
    /\ plug_result.status = "returned"
    /\ \A i \in DOMAIN test.phases :
         HasPlugs(test.phases[i]) =>
           \A n \in DOMAIN test.phases[i].plugs :
             /\ n \in DOMAIN plug_result.map
             /\ plug_result.map[n] = test.phases[i].plugs[n]
    /\ \A n \in DOMAIN plug_result.map :
         \E i \in DOMAIN test.phases :
           /\ HasPlugs(test.phases[i])
           /\ n \in DOMAIN test.phases[i].plugs
           /\ test.phases[i].plugs[n] = plug_result.map[n]

\* C3 witness: a map of two entries was returned for a list in which two
\* phases require the same plug with the same type and a third phase
\* exposes no plugs.
C3_Witness ==
  /\ plug_result.status = "returned"
  /\ Cardinality(DOMAIN plug_result.map) = 2
  /\ \E i, j, k \in DOMAIN test.phases :
       /\ i # j
       /\ ~HasPlugs(test.phases[k])
       /\ HasPlugs(test.phases[i]) /\ HasPlugs(test.phases[j])
       /\ DOMAIN test.phases[i].plugs \cap DOMAIN test.phases[j].plugs # {}

\* C4: a conflicting plug requirement is a construction-time error: no
\* constructed Test has conflicting plug types, and DuplicatePlugError is
\* never raised by a later plug_type_map access.
C4_ConstructionTimeError ==
  /\ test.constructed => ~Conflict(test.phases)
  /\ plug_result # DuplicatePlugError

\* The OutputTestRecord call of cell c has been left, by return or exception.
OutputEnded(c) == cell[c].otr \in {"returned", "raised"}

\* The callbacks of a sequence of invocations.
CallbacksOf(inv) == [i \in DOMAIN inv |-> inv[i].cb]

Range(f) == { f[i] : i \in DOMAIN f }

\* C5: a failing callback does not propagate out of OutputTestRecord, and
\* every callback registered when the record was handed over is still
\* invoked.
C5_CallbackFailureIsolated ==
  \A c \in Cells :
    /\ cell[c].otr # "raised"
    /\ OutputEnded(c) => Len(cell[c].invoked) >= Len(cell[c].cbs_at_call)

\* C6: the callbacks invoked for a record produced after starter.Start()
\* are those registered before starter.Start() was called.
C6_RegistrationClosedAtStart ==
  \A c \in Cells :
    (cell[c].otr = "returned" /\ reg_at_start # None) =>
      Range(CallbacksOf(cell[c].invoked)) = Range(reg_at_start[1])

\* The number of calls `call` made by `by` in the log l.
CountIn(l, call, by) ==
  Cardinality({ i \in DOMAIN l : l[i] = [call |-> call, by |-> by] })

\* C7: every SIGINT delivered during Execute has led to starter.Stop() and
\* handler.Stop() from sigint_handler by the time Execute returns, and each
\* handler.Stop() of sigint_handler comes after a starter.Stop() of its own
\* has returned.
C7_InterruptStopsBoth ==
  /\ exec_state = "returned" =>
       /\ CountIn(log, "starter.Stop", "sigint_handler") = interrupts
       /\ CountIn(log, "starter.Stop returned", "sigint_handler") = interrupts
       /\ CountIn(log, "handler.Stop", "sigint_handler") = interrupts
  /\ \A j \in DOMAIN log :
       log[j] = [call |-> "handler.Stop", by |-> "sigint_handler"] =>
         CountIn(SubSeq(log, 1, j), "starter.Stop returned", "sigint_handler")
           >= CountIn(SubSeq(log, 1, j), "handler.Stop", "sigint_handler")

\* C7 witness: Execute has returned after a SIGINT that arrived while a
\* cell was inside a phase body.
C7_Witness ==
  /\ exec_state = "returned"
  /\ interrupts >= 1
  /\ midphase

\* C8: when OutputTestRecord has been left and no callback was registered
\* meanwhile, every callback registered before the call has been invoked
\* exactly once with the record, in registration order.
C8_EachCallbackOnceInOrder ==
  \A c \in Cells :
    (OutputEnded(c) /\ test.output_callbacks = cell[c].cbs_at_call) =>
      cell[c].invoked =
        [i \in DOMAIN cell[c].cbs_at_call |->
           [cb |-> cell[c].cbs_at_call[i], record |-> cell[c].record]]

\* C9: configuration is loaded and run metadata saved at most once each;
\* both have happened, successfully, before the starter and its cells
\* exist; a returned Execute did each exactly once; and when Execute
\* raised out of either, no cell exists or runs.
C9_LoadAndSaveOnceBeforeCells ==
  /\ conf_loads <= 1
  /\ rundata_saves <= 1
  /\ (\E c \in Cells : cell[c].pc # "none") =>
       (conf_loads = 1 /\ rundata_saves = 1 /\ exec_state # "raised")
  /\ exec_state = "returned" => (conf_loads = 1 /\ rundata_saves = 1)
  /\ exec_state = "raised" => \A c \in Cells : cell[c].pc = "none"

\* C9 witness: a cell is inside a phase body.
C9_Witness ==
  \E c \in Cells : cell[c].pc = "phase" /\ conf_loads = 1 /\ rundata_saves = 1

\* starter.Stop() has been called.
StopRequested == \E i \in DOMAIN log : log[i].call = "starter.Stop"

\* C10: once a SIGINT has been delivered, Execute eventually returns, and
\* after the Stop request no cell loop is started.
C10_InterruptEndsExecute ==
  /\ (interrupts > 0) ~> (exec_state = "returned")
  /\ [][StopRequested => \A c \in Cells : LoopAlive(c)' => LoopAlive(c)]_vars

====
